---- MODULE Spec2Model ----
(***************************************************************************)
(* AI Photo Translator Pro: the overlay layout engine of src/src/App.tsx   *)
(* (geometry mapper, font-size fit solver, overlay compositor) and the     *)
(* page state that feeds it (image, analysis requests, detection list,     *)
(* viewport metrics, API key settings), the formatting of a provider       *)
(* response in src/src/services/visionService.ts, the server route of      *)
(* src/api/index.ts, and                                                   *)
(* the descending-step solver of the earlier page in src/unnamed/part_000. *)
(*                                                                         *)
(* Lengths are exact fixed-point numbers: one CSS pixel is PxUnit units.   *)
(* The mapper divides by 1000 and the search halves an interval at most    *)
(* five times, so 1000 * 2^5 units per pixel keep every value of the       *)
(* program an integer here (the descending solver's 0.8 and 0.5 too).      *)
(* JavaScript computes the same values in binary floating point; the       *)
(* model is the exact-arithmetic reading.                                  *)
(***************************************************************************)
EXTENDS Integers, Sequences, FiniteSets, TLC

----------------------------------------------------------------------------
(* Units and policy constants                                              *)

NormRange == 1000            \* App.tsx:260  "* containerWidth / 1000"
PxUnit == NormRange * 32     \* fixed-point units per pixel
Px(n) == n * PxUnit

MinSizePx == 12              \* App.tsx:274  let minSize = 12
CeilingPx == 40              \* App.tsx:275  Math.min(40, ...)
PaddingPx == 4               \* App.tsx:269  const padding = 4
RootFontSize == 16           \* App.tsx:267  const rootFontSize = 16
Precision == PxUnit \div 2   \* App.tsx:277  const precision = 0.5
LineHeightNum == 6           \* App.tsx:281  safeLineHeight = 1.2 = 6/5
LineHeightDen == 5
EffectiveNum == 21           \* App.tsx:282  size * 1.05 = size * 21/20
EffectiveDen == 20

Min2(a, b) == IF a <= b THEN a ELSE b
Max2(a, b) == IF a >= b THEN a ELSE b

\* Math.floor(a / b) and Math.ceil(a / b) for a >= 0, b > 0
FloorDiv(a, b) == a \div b
CeilDiv(a, b) == (a + b - 1) \div b

----------------------------------------------------------------------------
(* Fit solver (App.tsx:265-312)                                            *)

\* App.tsx:270-271
TargetDim(side) == Max2(side - Px(PaddingPx), Px(1))

\* mutant: the 40px ceiling forgotten
MaxSizeNoCeiling(width, height, isVertical) ==
    IF isVertical THEN TargetDim(height) ELSE TargetDim(width)

\* mutant: the ceiling taken from the other side of the rectangle
MaxSizeOtherSide(width, height, isVertical) ==
    IF isVertical THEN Min2(Px(CeilingPx), TargetDim(width))
                  ELSE Min2(Px(CeilingPx), TargetDim(height))

\* mutant: the ceiling taken from the width in both orientations
MaxSizeFromWidth(width, height, isVertical) ==
    Min2(Px(CeilingPx), TargetDim(width))

\* App.tsx:275
MaxSize(width, height, isVertical) ==
    IF isVertical THEN Min2(Px(CeilingPx), TargetDim(height))
                  ELSE Min2(Px(CeilingPx), TargetDim(width))

\* mutant: the operands of the line-count division swapped
CheckFitsSwappedDivision(size, W, H, count, isVertical) ==
    IF isVertical
    THEN LET charsPerColumn == Max2(FloorDiv(EffectiveDen * H, EffectiveNum * size), 1)
             totalColumns == CeilDiv(charsPerColumn, count)
         IN  totalColumns * size * LineHeightNum <= LineHeightDen * W
    ELSE LET charsPerLine == Max2(FloorDiv(EffectiveDen * W, EffectiveNum * size), 1)
             totalLines == CeilDiv(charsPerLine, count)
         IN  totalLines * size * LineHeightNum <= LineHeightDen * H

\* App.tsx:280-295.  size, W, H in units; count a number of characters.
\* floor(H / (size * 21/20)) = floor(20 H / (21 size));
\* n * size * 6/5 <= W  iff  6 n size <= 5 W.
CheckFits(size, W, H, count, isVertical) ==
    IF isVertical
    THEN LET charsPerColumn == Max2(FloorDiv(EffectiveDen * H, EffectiveNum * size), 1)
             totalColumns == CeilDiv(count, charsPerColumn)
         IN  totalColumns * size * LineHeightNum <= LineHeightDen * W
    ELSE LET charsPerLine == Max2(FloorDiv(EffectiveDen * W, EffectiveNum * size), 1)
             totalLines == CeilDiv(count, charsPerLine)
         IN  totalLines * size * LineHeightNum <= LineHeightDen * H

\* App.tsx:298-299 and 276: the search state before the first iteration
SearchInit(width, height, isVertical) ==
    [low |-> Px(MinSizePx),
     high |-> MaxSize(width, height, isVertical),
     bestSize |-> Px(MinSizePx)]

\* mutant: bestSize recorded for a midpoint that does not fit
LoopBodyAlwaysRecord(s, W, H, count, isVertical) ==
    LET mid == (s.low + s.high) \div 2
    IN  IF CheckFits(mid, W, H, count, isVertical)
        THEN [low |-> mid + Precision, high |-> s.high, bestSize |-> mid]
        ELSE [low |-> s.low, high |-> mid - Precision, bestSize |-> mid]

\* mutant: the interval narrowed by a quarter pixel past the midpoint
LoopBodyQuarterStep(s, W, H, count, isVertical) ==
    LET mid == (s.low + s.high) \div 2
    IN  IF CheckFits(mid, W, H, count, isVertical)
        THEN [low |-> mid + Precision \div 2, high |-> s.high, bestSize |-> mid]
        ELSE [low |-> s.low, high |-> mid - Precision \div 2, bestSize |-> s.bestSize]

\* App.tsx:301-307: one iteration of the while loop
LoopBody(s, W, H, count, isVertical) ==
    LET mid == (s.low + s.high) \div 2
    IN  IF CheckFits(mid, W, H, count, isVertical)
        THEN [low |-> mid + Precision, high |-> s.high, bestSize |-> mid]
        ELSE [low |-> s.low, high |-> mid - Precision, bestSize |-> s.bestSize]

\* App.tsx:300-308: the whole loop
RECURSIVE SearchLoop(_, _, _, _, _)
SearchLoop(s, W, H, count, isVertical) ==
    IF s.low <= s.high
    THEN SearchLoop(LoopBody(s, W, H, count, isVertical), W, H, count, isVertical)
    ELSE s

\* App.tsx:311: finalRem = bestSize / rootFontSize, kept as an exact quotient
FinalRem(bestSize) == [num |-> bestSize, den |-> RootFontSize]

\* App.tsx:335: `${finalRem}rem` at the root font size the code assumes
RemToPx(rem) == (rem.num * RootFontSize) \div rem.den

\* mutant: scrolling decided by the size alone
ShouldScrollBySizeOnly(bestSize, W, H, count, isVertical) ==
    bestSize = Px(MinSizePx)

\* App.tsx:312
ShouldScroll(bestSize, W, H, count, isVertical) ==
    bestSize = Px(MinSizePx) /\ ~CheckFits(Px(MinSizePx), W, H, count, isVertical)

\* App.tsx:265-312: the solver as one function of the rectangle
Solve(width, height, count, isVertical) ==
    LET W == TargetDim(width)
        H == TargetDim(height)
        s == SearchLoop(SearchInit(width, height, isVertical), W, H, count, isVertical)
    IN  [fontSizePx |-> RemToPx(FinalRem(s.bestSize)),
         overflow |-> ShouldScroll(s.bestSize, W, H, count, isVertical)]

----------------------------------------------------------------------------
(* Geometry mapper and overlay compositor (App.tsx:252-352)                *)

\* a coordinate the provider left out (undefined); `v.x || 0` reads it as 0
Undef == 0 - 1
OrZero(c) == IF c = Undef THEN 0 ELSE c

\* Math.min(...list) and Math.max(...list) of a non-empty list
RECURSIVE MinOf(_)
MinOf(list) ==
    IF Len(list) = 1 THEN list[1] ELSE Min2(list[1], MinOf(Tail(list)))

RECURSIVE MaxOf(_)
MaxOf(list) ==
    IF Len(list) = 1 THEN list[1] ELSE Max2(list[1], MaxOf(Tail(list)))

\* vertices.map(v => v.x || 0), vertices.map(v => v.y || 0)
Xs(vertices) == [i \in 1..Len(vertices) |-> OrZero(vertices[i].x)]
Ys(vertices) == [i \in 1..Len(vertices) |-> OrZero(vertices[i].y)]

\* n * container / 1000 for a normalized n and a container side in whole pixels
ToDisplay(n, container) == n * container * (PxUnit \div NormRange)

\* mutant: the first and third vertex taken for the top-left and bottom-right corner
MapToDisplayCornerOrder(vertices, containerWidth, containerHeight) ==
    [x |-> ToDisplay(OrZero(vertices[1].x), containerWidth),
     y |-> ToDisplay(OrZero(vertices[1].y), containerHeight),
     width |-> ToDisplay(OrZero(vertices[3].x) - OrZero(vertices[1].x), containerWidth),
     height |-> ToDisplay(OrZero(vertices[3].y) - OrZero(vertices[1].y), containerHeight)]

\* mutant: the right and bottom edge taken for the width and height
MapToDisplayFarEdge(vertices, containerWidth, containerHeight) ==
    [x |-> ToDisplay(MinOf(Xs(vertices)), containerWidth),
     y |-> ToDisplay(MinOf(Ys(vertices)), containerHeight),
     width |-> ToDisplay(MaxOf(Xs(vertices)), containerWidth),
     height |-> ToDisplay(MaxOf(Ys(vertices)), containerHeight)]

\* App.tsx:260-263
MapToDisplay(vertices, containerWidth, containerHeight) ==
    [x |-> ToDisplay(MinOf(Xs(vertices)), containerWidth),
     y |-> ToDisplay(MinOf(Ys(vertices)), containerHeight),
     width |-> ToDisplay(MaxOf(Xs(vertices)) - MinOf(Xs(vertices)), containerWidth),
     height |-> ToDisplay(MaxOf(Ys(vertices)) - MinOf(Ys(vertices)), containerHeight)]

\* App.tsx:266: block.translatedText.length || 1
CharCount(translatedText) ==
    IF Len(translatedText) = 0 THEN 1 ELSE Len(translatedText)

\* what the map callback returns for a block with fewer than 4 vertices
NullNode == [kind |-> "null"]

\* mutant: an overflowing block scrolls vertically whatever its orientation
OverlayNodeScrollY(block, idx, containerWidth, containerHeight) ==
    LET rect == MapToDisplay(block.boundingBox.vertices, containerWidth, containerHeight)
        isVertical == block.orientation = "vertical"
        fit == Solve(rect.width, rect.height, CharCount(block.translatedText), isVertical)
    IN  [kind |-> "div",
         key |-> idx,
         left |-> rect.x,
         top |-> rect.y,
         width |-> rect.width,
         height |-> rect.height,
         fontSizePx |-> fit.fontSizePx,
         shouldScroll |-> fit.overflow,
         flexDirection |-> IF isVertical THEN "row-reverse" ELSE "column",
         justifyContent |-> IF fit.overflow THEN "flex-start" ELSE "center",
         padding |-> IF rect.width < Px(20) \/ rect.height < Px(20) THEN 0 ELSE 2,
         writingMode |-> IF isVertical THEN "vertical-rl" ELSE "horizontal-tb",
         overflowY |-> IF fit.overflow THEN "auto" ELSE "hidden",
         overflowX |-> IF isVertical /\ fit.overflow THEN "auto" ELSE "hidden",
         title |-> block.text,
         text |-> block.translatedText]

\* App.tsx:314-351: the element of one block
OverlayNode(block, idx, containerWidth, containerHeight) ==
    LET rect == MapToDisplay(block.boundingBox.vertices, containerWidth, containerHeight)
        isVertical == block.orientation = "vertical"
        fit == Solve(rect.width, rect.height, CharCount(block.translatedText), isVertical)
    IN  [kind |-> "div",
         key |-> idx,
         left |-> rect.x,
         top |-> rect.y,
         width |-> rect.width,
         height |-> rect.height,
         fontSizePx |-> fit.fontSizePx,
         shouldScroll |-> fit.overflow,
         flexDirection |-> IF isVertical THEN "row-reverse" ELSE "column",
         justifyContent |-> IF fit.overflow THEN "flex-start" ELSE "center",
         padding |-> IF rect.width < Px(20) \/ rect.height < Px(20) THEN 0 ELSE 2,
         writingMode |-> IF isVertical THEN "vertical-rl" ELSE "horizontal-tb",
         overflowY |-> IF ~isVertical /\ fit.overflow THEN "auto" ELSE "hidden",
         overflowX |-> IF isVertical /\ fit.overflow THEN "auto" ELSE "hidden",
         title |-> block.text,
         text |-> block.translatedText]

\* mutant: the vertex guard dropped
MapBlockNoGuard(block, idx, containerWidth, containerHeight) ==
    IF Len(block.boundingBox.vertices) = 0
    THEN NullNode
    ELSE OverlayNode(block, idx, containerWidth, containerHeight)

\* App.tsx:252-254: the callback of translatedBlocks.map; idx counts from 0
MapBlock(block, idx, containerWidth, containerHeight) ==
    IF Len(block.boundingBox.vertices) < 4
    THEN NullNode
    ELSE OverlayNode(block, idx, containerWidth, containerHeight)

\* App.tsx:252-352: translatedBlocks.map(...), a null child rendering nothing
Compose(blocks, containerWidth, containerHeight) ==
    SelectSeq([i \in 1..Len(blocks) |->
                  MapBlock(blocks[i], i - 1, containerWidth, containerHeight)],
              LAMBDA node : node.kind # "null")

----------------------------------------------------------------------------
(* Detection pipeline boundary (services/visionService.ts, api/index.ts)    *)

\* const [ymin, xmin, ymax, xmax] = b.box_2d: a missing entry is undefined
BoxEntry(box, i) == IF i <= Len(box) THEN box[i] ELSE Undef

\* visionService.ts:63-73: the callback of rawBlocks.map
FormatBlock(b) ==
    LET ymin == BoxEntry(b.box_2d, 1)
        xmin == BoxEntry(b.box_2d, 2)
        ymax == BoxEntry(b.box_2d, 3)
        xmax == BoxEntry(b.box_2d, 4)
    IN  [text |-> b.text,
         translatedText |-> b.translatedText,
         orientation |-> IF b.orientation = "vertical" THEN "vertical" ELSE "horizontal",
         boundingBox |-> [vertices |-> <<[x |-> xmin, y |-> ymin], [x |-> xmax, y |-> ymin],
                                         [x |-> xmax, y |-> ymax], [x |-> xmin, y |-> ymax]>>]]

\* visionService.ts:63: rawBlocks.map(...)
FormatBlocks(raw) == [i \in 1..Len(raw) |-> FormatBlock(raw[i])]

\* mutant: box_2d read as [xmin, ymin, xmax, ymax]
ServerFormatBlockXY(b) ==
    LET xmin == BoxEntry(b.box_2d, 1)
        ymin == BoxEntry(b.box_2d, 2)
        xmax == BoxEntry(b.box_2d, 3)
        ymax == BoxEntry(b.box_2d, 4)
    IN  [text |-> b.text,
         translatedText |-> b.translatedText,
         orientation |-> IF b.orientation = "vertical" THEN "vertical" ELSE "horizontal",
         boundingBox |-> [vertices |-> <<[x |-> xmin, y |-> ymin], [x |-> xmax, y |-> ymin],
                                         [x |-> xmax, y |-> ymax], [x |-> xmin, y |-> ymax]>>]]

\* api/index.ts:80-95: the callback of rawBlocks.map in the server route
ServerFormatBlock(b) ==
    LET ymin == BoxEntry(b.box_2d, 1)
        xmin == BoxEntry(b.box_2d, 2)
        ymax == BoxEntry(b.box_2d, 3)
        xmax == BoxEntry(b.box_2d, 4)
    IN  [text |-> b.text,
         translatedText |-> b.translatedText,
         orientation |-> IF b.orientation = "vertical" THEN "vertical" ELSE "horizontal",
         boundingBox |-> [vertices |-> <<[x |-> xmin, y |-> ymin], [x |-> xmax, y |-> ymin],
                                         [x |-> xmax, y |-> ymax], [x |-> xmin, y |-> ymax]>>]]

\* api/index.ts:80: rawBlocks.map(...)
ServerFormatBlocks(raw) == [i \in 1..Len(raw) |-> ServerFormatBlock(raw[i])]

\* a property the JSON text of a response does not carry
Omitted == 0 - 2

\* api/index.ts:97: res.json(formattedBlocks) as the caller parses it back;
\* JSON.stringify leaves out a property whose value is undefined
JsonCoordinate(v) == IF v = Undef THEN Omitted ELSE v
ResJson(blocks) ==
    [i \in 1..Len(blocks) |->
        [text |-> blocks[i].text,
         translatedText |-> blocks[i].translatedText,
         orientation |-> blocks[i].orientation,
         boundingBox |->
            [vertices |->
                [k \in 1..Len(blocks[i].boundingBox.vertices) |->
                    [x |-> JsonCoordinate(blocks[i].boundingBox.vertices[k].x),
                     y |-> JsonCoordinate(blocks[i].boundingBox.vertices[k].y)]]]]]

----------------------------------------------------------------------------
(* State                                                                   *)

VARIABLES
    image,            \* App.tsx:7    0 is null, else the selected image
    isProcessing,     \* App.tsx:8
    status,           \* App.tsx:9
    translatedBlocks, \* App.tsx:10
    imageSize,        \* App.tsx:11
    error,            \* App.tsx:12   Null or a message
    displayScale,     \* App.tsx:108  a quotient num / den
    reading,          \* images a FileReader is still reading (App.tsx:58-65)
    loadPending,      \* image whose load event the <img> has yet to fire, or 0
    natural,          \* natural size of the bitmap the <img> shows
    viewWidth,        \* width the window leaves to the image container
    clientWidth,      \* imageRef.current?.clientWidth || 0
    clientHeight,     \* imageRef.current?.clientHeight || 0
    overlays,         \* the overlay elements of the last render
    requests,         \* provider requests in flight: the image and the key of each
    elapsedSeconds,   \* App.tsx:14
    analysedImage,    \* history: image whose analysis gave translatedBlocks, or 0
    isSettingsOpen,   \* App.tsx:17
    apiKey,           \* App.tsx:18   the key input's text
    savedKey,         \* localStorage "user_gemini_api_key": Null or a string
    envKey,           \* process.env.GEMINI_API_KEY, "" when the build has none
    statusTimers,     \* pending setTimeout(() => setStatus(""), 3000) callbacks
    rawBlocks,        \* the parsed response translatedBlocks was formatted from
    serverBlocks,     \* body of the last /api/translate response, as parsed
    reqImage,         \* req.body.image of the request the route handles
    sent,             \* responses the route has sent for that request
    rectW, rectH, charCount, vertical,   \* inputs of a solver run
    search,           \* low, high, bestSize (App.tsx:276, 298-299)
    iters,            \* loop iterations so far
    result,           \* fontSizePx and overflow of the finished run
    pc                \* "app", "loop"/"done", "compose"/"composed"

appVars == <<image, isProcessing, status, translatedBlocks, imageSize, error,
             displayScale, reading, loadPending, natural, viewWidth,
             clientWidth, clientHeight, overlays, requests, elapsedSeconds,
             analysedImage, isSettingsOpen, apiKey, savedKey, envKey,
             statusTimers, rawBlocks, serverBlocks, reqImage, sent>>
settingsVars == <<isSettingsOpen, apiKey, savedKey, envKey, statusTimers>>
serverVars == <<serverBlocks, reqImage, sent>>
routeVars == <<rawBlocks, serverVars>>
solverVars == <<rectW, rectH, charCount, vertical, search, iters, result>>
vars == <<appVars, solverVars, pc>>

Null == "null"
NoResult == [fontSizePx |-> 0, overflow |-> FALSE]
NoSize == [width |-> 0, height |-> 0]

\* the page as constructed (App.tsx:7-18, 108), before any image is chosen
AppIdle ==
    /\ image = 0
    /\ isProcessing = FALSE
    /\ status = ""
    /\ translatedBlocks = <<>>
    /\ imageSize = NoSize
    /\ error = Null
    /\ displayScale = [num |-> 1, den |-> 1]
    /\ reading = {}
    /\ loadPending = 0
    /\ natural = NoSize
    /\ clientWidth = 0
    /\ clientHeight = 0
    /\ overlays = <<>>
    /\ requests = <<>>
    /\ elapsedSeconds = 0
    /\ analysedImage = 0
    /\ isSettingsOpen = FALSE
    /\ statusTimers = 0

\* nothing formatted yet by the client service or the server route
RouteIdle ==
    /\ rawBlocks = <<>>
    /\ serverBlocks = <<>>
    /\ reqImage = ""
    /\ sent = <<>>

\* a browser with no saved key running a build with no environment key
NoKeys ==
    /\ apiKey = ""
    /\ savedKey = Null
    /\ envKey = ""

SolverIdle ==
    /\ rectW = 0
    /\ rectH = 0
    /\ charCount = 1
    /\ vertical = FALSE
    /\ search = SearchInit(0, 0, FALSE)
    /\ iters = 0
    /\ result = NoResult

----------------------------------------------------------------------------
(* Solver run, one loop iteration per step                                 *)

MaxSide == 56                \* rectangle sides 0 .. MaxSide pixels
MaxChars == 4                \* translated text of 1 .. MaxChars characters
NumViewports == 2            \* widths the window can give the image
NumImages == 2               \* images the user can choose from
MaxBlocks == 1               \* detections in one response
MaxRequests == 2             \* analysis requests in flight at once
MaxSeconds == 1              \* ticks of the elapsed-seconds timer that are followed
MaxTimers == 1               \* status timeouts pending at once

ViewWidth(k) == 200 * k

InitSolver ==
    /\ AppIdle
    /\ RouteIdle
    /\ NoKeys
    /\ viewWidth = ViewWidth(1)
    /\ rectW \in {Px(n) : n \in 0..MaxSide}
    /\ rectH \in {Px(n) : n \in 0..MaxSide}
    /\ charCount \in 1..MaxChars
    /\ vertical \in BOOLEAN
    /\ search = SearchInit(rectW, rectH, vertical)
    /\ iters = 0
    /\ pc = "loop"
    /\ result = NoResult

LoopIter ==
    /\ pc = "loop"
    /\ search.low <= search.high
    /\ search' = LoopBody(search, TargetDim(rectW), TargetDim(rectH), charCount, vertical)
    /\ iters' = iters + 1
    /\ UNCHANGED <<appVars, rectW, rectH, charCount, vertical, pc, result>>

LoopExit ==
    /\ pc = "loop"
    /\ search.low > search.high
    /\ pc' = "done"
    /\ result' = [fontSizePx |-> RemToPx(FinalRem(search.bestSize)),
                  overflow |-> ShouldScroll(search.bestSize, TargetDim(rectW),
                                            TargetDim(rectH), charCount, vertical)]
    /\ UNCHANGED <<appVars, rectW, rectH, charCount, vertical, search, iters>>

NextSolver == LoopIter \/ LoopExit

SolverSpec == InitSolver /\ [][NextSolver]_vars

\* App.tsx:300-312 is straight-line synchronous code: once entered, the loop and
\* the statements after it run to completion without yielding
SolverLive == SolverSpec /\ WF_vars(NextSolver)

----------------------------------------------------------------------------
(* Compositor run on a given detection list and container size             *)

MaxList == 3                 \* detections in a composed list

MkBlock(vs, o, t) ==
    [text |-> "src", translatedText |-> t, orientation |-> o,
     boundingBox |-> [vertices |-> vs]]

GeoPoints == {[x |-> a, y |-> b] : a \in {100, 400, 1000}, b \in {100, 300}}
GeoSides == {0, 500, 1000}

\* one detection whose quadrilateral is any four points in any order
SingleQuads ==
    {<<MkBlock(<<p1, p2, p3, p4>>, o, "abc")>> :
        p1 \in GeoPoints, p2 \in GeoPoints, p3 \in GeoPoints, p4 \in GeoPoints,
        o \in {"horizontal", "vertical"}}

PoolBlocks ==
    {MkBlock(<<>>, "horizontal", "none"),
     MkBlock(<<[x |-> 100, y |-> 100], [x |-> 400, y |-> 100], [x |-> 400, y |-> 300]>>,
             "horizontal", "three"),
     MkBlock(<<[x |-> 100, y |-> 100], [x |-> 400, y |-> 100],
               [x |-> 400, y |-> 300], [x |-> 100, y |-> 300]>>, "horizontal", "four"),
     MkBlock(<<[x |-> 600, y |-> 0], [x |-> 700, y |-> 0],
               [x |-> 700, y |-> 900], [x |-> 600, y |-> 900]>>, "vertical", "tall"),
     MkBlock(<<[x |-> 0, y |-> 500], [x |-> 50, y |-> 450], [x |-> 100, y |-> 500],
               [x |-> 100, y |-> 600], [x |-> 0, y |-> 600]>>, "horizontal", "")}

RECURSIVE ListsUpTo(_)
ListsUpTo(n) ==
    IF n = 0 THEN {<<>>}
    ELSE LET shorter == ListsUpTo(n - 1)
         IN  shorter \cup {Append(l, b) : l \in {m \in shorter : Len(m) = n - 1},
                                          b \in PoolBlocks}

InitCompose ==
    /\ image = 0
    /\ isProcessing = FALSE
    /\ status = ""
    /\ imageSize = NoSize
    /\ error = Null
    /\ displayScale = [num |-> 1, den |-> 1]
    /\ reading = {}
    /\ loadPending = 0
    /\ natural = NoSize
    /\ requests = <<>>
    /\ elapsedSeconds = 0
    /\ analysedImage = 0
    /\ isSettingsOpen = FALSE
    /\ statusTimers = 0
    /\ rawBlocks = <<>>
    /\ serverBlocks = <<>>
    /\ reqImage = ""
    /\ sent = <<>>
    /\ NoKeys
    /\ viewWidth = ViewWidth(1)
    /\ SolverIdle
    /\ translatedBlocks \in SingleQuads \cup ListsUpTo(MaxList)
    /\ clientWidth \in GeoSides
    /\ clientHeight \in GeoSides
    /\ overlays = <<>>
    /\ pc = "compose"

\* App.tsx:252-352 applied to the list
ComposeList ==
    /\ pc = "compose"
    /\ overlays' = Compose(translatedBlocks, clientWidth, clientHeight)
    /\ pc' = "composed"
    /\ UNCHANGED <<image, isProcessing, status, translatedBlocks, imageSize, error,
                   displayScale, reading, loadPending, natural, viewWidth,
                   clientWidth, clientHeight, requests, elapsedSeconds,
                   analysedImage, settingsVars, routeVars, solverVars>>

NextCompose == ComposeList

ComposeSpec == InitCompose /\ [][NextCompose]_vars

----------------------------------------------------------------------------
(* The descending-step solver of the earlier page (src/unnamed/part_000)   *)

DescLineHeightNum == 11      \* lineHeight = 1.1
DescLineHeightDen == 10
DescCharNum == 51            \* size * 1.02 per character
DescCharDen == 50
DescFillNum == 19            \* available * 0.95
DescFillDen == 20
DescStartNum == 4            \* 0.8 * the other dimension
DescStartDen == 5
DescStep == PxUnit \div 2    \* bestSize -= 0.5

\* part_000:238-239: Math.max(side - padding, 1)
DescAvailable(side) == Max2(side - Px(PaddingPx), Px(1))

\* part_000:244-258
DescCheckFits(size, availableWidth, availableHeight, count, isVertical) ==
    IF isVertical
    THEN LET charsPerColumn ==
                 Max2(FloorDiv(DescCharDen * availableHeight, DescCharNum * size), 1)
             columnsNeeded == CeilDiv(count, charsPerColumn)
         IN  columnsNeeded * size * DescLineHeightNum * DescFillDen
                 <= availableWidth * DescFillNum * DescLineHeightDen
    ELSE LET charsPerLine ==
                 Max2(FloorDiv(DescCharDen * availableWidth, DescCharNum * size), 1)
             linesNeeded == CeilDiv(count, charsPerLine)
         IN  linesNeeded * size * DescLineHeightNum * DescFillDen
                 <= availableHeight * DescFillNum * DescLineHeightDen

\* part_000:262-264
DescStart(availableWidth, availableHeight, isVertical) ==
    IF isVertical
    THEN Min2(Px(CeilingPx),
              Min2(availableHeight, (availableWidth * DescStartNum) \div DescStartDen))
    ELSE Min2(Px(CeilingPx),
              Min2(availableWidth, (availableHeight * DescStartNum) \div DescStartDen))

\* part_000:270-280
DescEmit(bestSize, availableWidth, availableHeight, count, isVertical) ==
    IF DescCheckFits(bestSize, availableWidth, availableHeight, count, isVertical)
    THEN [fontSizePx |-> bestSize, overflow |-> FALSE]
    ELSE [fontSizePx |-> Px(MinSizePx), overflow |-> TRUE]

InitDesc ==
    /\ AppIdle
    /\ RouteIdle
    /\ NoKeys
    /\ viewWidth = ViewWidth(1)
    /\ rectW \in {Px(n) : n \in 0..MaxSide}
    /\ rectH \in {Px(n) : n \in 0..MaxSide}
    /\ charCount \in 1..MaxChars
    /\ vertical \in BOOLEAN
    /\ search = [bestSize |-> DescStart(DescAvailable(rectW), DescAvailable(rectH), vertical)]
    /\ iters = 0
    /\ pc = "descend"
    /\ result = NoResult

\* part_000:266-268: one iteration of the while loop
DescStepDown ==
    /\ pc = "descend"
    /\ search.bestSize > Px(MinSizePx)
    /\ ~DescCheckFits(search.bestSize, DescAvailable(rectW), DescAvailable(rectH),
                      charCount, vertical)
    /\ search' = [bestSize |-> search.bestSize - DescStep]
    /\ iters' = iters + 1
    /\ UNCHANGED <<appVars, rectW, rectH, charCount, vertical, pc, result>>

\* part_000:266, 270-280: the loop ends and the size is emitted
DescExit ==
    /\ pc = "descend"
    /\ ~(/\ search.bestSize > Px(MinSizePx)
         /\ ~DescCheckFits(search.bestSize, DescAvailable(rectW), DescAvailable(rectH),
                           charCount, vertical))
    /\ pc' = "emitted"
    /\ result' = DescEmit(search.bestSize, DescAvailable(rectW), DescAvailable(rectH),
                          charCount, vertical)
    /\ UNCHANGED <<appVars, rectW, rectH, charCount, vertical, search, iters>>

NextDesc == DescStepDown \/ DescExit

DescSpec == InitDesc /\ [][NextDesc]_vars

----------------------------------------------------------------------------
(* Formatting of one provider response by the client service and by the    *)
(* server route                                                            *)

MaxRawLen == 2               \* raw blocks in a formatted response

\* raw blocks of a provider response: boxes [ymin, xmin, ymax, xmax] with four
\* different entries, any orientation string, and one box that is too short
RawFormatPool ==
    {[text |-> t, translatedText |-> "ab", orientation |-> o,
      box_2d |-> <<ymin, 200, ymax, 500>>] :
        t \in {"a", "b"}, o \in {"horizontal", "vertical", "sideways"},
        ymin \in {100, 400}, ymax \in {300, 600}}
    \cup {[text |-> "c", translatedText |-> "ab", orientation |-> "horizontal",
           box_2d |-> <<100, 200, 300>>]}

RECURSIVE RawFormatLists(_)
RawFormatLists(n) ==
    IF n = 0 THEN {<<>>}
    ELSE LET shorter == RawFormatLists(n - 1)
         IN  shorter \cup {Append(l, b) : l \in {m \in shorter : Len(m) = n - 1},
                                          b \in RawFormatPool}

InitFormat ==
    /\ AppIdle
    /\ NoKeys
    /\ viewWidth = ViewWidth(1)
    /\ SolverIdle
    /\ rawBlocks \in RawFormatLists(MaxRawLen)
    /\ serverBlocks = <<>>
    /\ reqImage = ""
    /\ sent = <<>>
    /\ pc = "format"

\* visionService.ts:62-73: the client service formats the parsed response
ClientFormat ==
    /\ pc = "format"
    /\ translatedBlocks' = FormatBlocks(rawBlocks)
    /\ pc' = "route"
    /\ UNCHANGED <<image, isProcessing, status, imageSize, error, displayScale,
                   reading, loadPending, natural, viewWidth, clientWidth,
                   clientHeight, overlays, requests, elapsedSeconds, analysedImage,
                   settingsVars, routeVars, solverVars>>

\* api/index.ts:79-97: the server route formats the same response and sends it
RouteFormat ==
    /\ pc = "route"
    /\ serverBlocks' = ResJson(ServerFormatBlocks(rawBlocks))
    /\ pc' = "formatted"
    /\ UNCHANGED <<image, isProcessing, status, translatedBlocks, imageSize, error,
                   displayScale, reading, loadPending, natural, viewWidth,
                   clientWidth, clientHeight, overlays, requests, elapsedSeconds,
                   analysedImage, settingsVars, rawBlocks, reqImage, sent,
                   solverVars>>

NextFormat == ClientFormat \/ RouteFormat

FormatSpec == InitFormat /\ [][NextFormat]_vars

----------------------------------------------------------------------------
(* The page: image selection, analysis request, viewport (App.tsx:55-120)  *)

Images == 1..NumImages

\* img.naturalWidth, img.naturalHeight of the images the user can choose
NaturalSize(img) == [width |-> 100 * img, height |-> 100 * (NumImages + 1 - img)]

\* raw blocks the provider can return (visionService.ts:62)
RawPool ==
    {[text |-> "Hello", translatedText |-> "ab", orientation |-> "horizontal",
      box_2d |-> <<100, 100, 300, 400>>],
     [text |-> "Tate", translatedText |-> "abcdefgh", orientation |-> "vertical",
      box_2d |-> <<0, 600, 900, 700>>],
     [text |-> "x", translatedText |-> "", orientation |-> "sideways",
      box_2d |-> <<500, 500, 550, 560>>]}

RECURSIVE RawListsOfLen(_)
RawListsOfLen(n) ==
    IF n = 0 THEN {<<>>}
    ELSE {Append(l, b) : l \in RawListsOfLen(n - 1), b \in RawPool}

RawResponses == UNION {RawListsOfLen(n) : n \in 1..MaxBlocks}

\* err.message of a rejected request; "" stands for a missing message
ErrorMessages == {"", "provider error"}

\* className="w-full h-auto block" (App.tsx:248): the <img> is as wide as its
\* container and as high as the shown bitmap's aspect ratio makes it
LayoutHeight(width, bitmap) ==
    IF bitmap.width = 0 THEN 0 ELSE (width * bitmap.height) \div bitmap.width

\* App.tsx:236-353: the overlay area is rendered only when an image is selected
Render(img, blocks, containerWidth, containerHeight) ==
    IF img = 0 THEN <<>> ELSE Compose(blocks, containerWidth, containerHeight)

\* setDisplayScale(v) re-renders only when v differs from the current state
SameScale(p, q) == p.num * q.den = q.num * p.den

\* App.tsx:111-115: the scale updateScale sets, or the current one when it returns early
UpdatedScale(hasImg, width, size, scale) ==
    IF hasImg /\ size.width > 0 THEN [num |-> width, den |-> size.width] ELSE scale

\* mutant: the environment key preferred to the saved one
ChosenKeyEnvFirst(saved, env) ==
    IF env # "" THEN env ELSE IF saved \notin {Null, ""} THEN saved ELSE ""

\* visionService.ts:22-23: savedKey || process.env.GEMINI_API_KEY, "" when neither
ChosenKey(saved, env) == IF saved \notin {Null, ""} THEN saved ELSE env

\* visionService.ts:26: the message of the error thrown when no key is set
KeyMissingMessage == "Please set the Gemini API Key first"

\* keys the user can type into the settings input (App.tsx:424)
TypedKeys == {"", "user-key"}
EnvKeys == {"", "env-key"}

RemoveAt(seq, i) == [k \in 1..(Len(seq) - 1) |-> IF k < i THEN seq[k] ELSE seq[k + 1]]

Init ==
    /\ AppIdle
    /\ RouteIdle
    /\ viewWidth \in {ViewWidth(k) : k \in 1..NumViewports}
    /\ savedKey \in {Null} \cup (TypedKeys \ {""})
    /\ envKey \in EnvKeys
    /\ apiKey = (IF savedKey = Null THEN "" ELSE savedKey)
    /\ SolverIdle
    /\ pc = "app"

\* App.tsx:55-58, 65: a file is chosen and a FileReader starts reading it
HandleFileChange(img) ==
    /\ pc = "app"
    /\ img \notin reading
    /\ reading' = reading \cup {img}
    /\ UNCHANGED <<image, isProcessing, status, translatedBlocks, imageSize, error,
                   displayScale, loadPending, natural, viewWidth, clientWidth,
                   clientHeight, overlays, requests, elapsedSeconds, analysedImage,
                   settingsVars, routeVars, solverVars, pc>>

\* App.tsx:59-64: reader.onload, then the render and the [image, imageSize] effect
ReaderLoad(img) ==
    /\ pc = "app"
    /\ img \in reading
    /\ reading' = reading \ {img}
    /\ image' = img
    /\ translatedBlocks' = <<>>
    /\ analysedImage' = 0
    /\ error' = Null
    /\ status' = "Ready to translate"
    /\ loadPending' = IF img = image THEN loadPending ELSE img
    /\ clientWidth' = viewWidth
    /\ clientHeight' = LayoutHeight(viewWidth, natural)
    /\ displayScale' = IF img = image THEN displayScale
                       ELSE UpdatedScale(TRUE, clientWidth', imageSize, displayScale)
    /\ overlays' = Render(image', translatedBlocks', clientWidth', clientHeight')
    /\ rawBlocks' = <<>>
    /\ UNCHANGED <<isProcessing, imageSize, natural, viewWidth, requests,
                   elapsedSeconds, settingsVars, serverVars, solverVars, pc>>

\* App.tsx:69-72: the <img> fires load; setImageSize, render, effect
HandleImageLoad ==
    /\ pc = "app"
    /\ loadPending # 0
    /\ loadPending' = 0
    /\ natural' = NaturalSize(loadPending)
    /\ imageSize' = NaturalSize(loadPending)
    /\ clientHeight' = LayoutHeight(clientWidth, natural')
    /\ displayScale' = UpdatedScale(TRUE, clientWidth, imageSize', displayScale)
    /\ overlays' = Render(image, translatedBlocks, clientWidth, clientHeight')
    /\ UNCHANGED <<image, isProcessing, status, translatedBlocks, error, reading,
                   viewWidth, clientWidth, requests, elapsedSeconds, analysedImage,
                   settingsVars, routeVars, solverVars, pc>>

\* mutant: the button stays enabled while an analysis is in progress
TranslateEnabledWhileProcessing == image # 0

\* App.tsx:197: the Translate button is not disabled
TranslateEnabled == image # 0 /\ ~isProcessing

\* mutant: the previous result not cleared when a request starts
ProcessImageKeepBlocks ==
    /\ pc = "app"
    /\ TranslateEnabled
    /\ Len(requests) < MaxRequests
    /\ elapsedSeconds' = 0
    /\ LET key == ChosenKey(savedKey, envKey)
       IN  IF key = ""
           THEN /\ isProcessing' = FALSE
                /\ error' = KeyMissingMessage
                /\ status' = "Error occurred"
                /\ requests' = requests
           ELSE /\ isProcessing' = TRUE
                /\ error' = Null
                /\ status' = "Analyzing & Translating with Gemini AI..."
                /\ requests' = Append(requests, [image |-> image, apiKey |-> key])
    /\ UNCHANGED <<image, translatedBlocks, analysedImage, overlays, imageSize,
                   displayScale, reading, loadPending, natural, viewWidth,
                   clientWidth, clientHeight, settingsVars, routeVars, solverVars, pc>>

\* App.tsx:74-85 with visionService.ts:21-29. With a key the click ends at the
\* await with the provider request in flight. Without one performOCRAndTranslate
\* throws before it builds the client, and the catch and finally blocks
\* (App.tsx:98-104) run in the microtask that follows the click, before any
\* other event.
ProcessImage ==
    /\ pc = "app"
    /\ TranslateEnabled
    /\ Len(requests) < MaxRequests
    /\ translatedBlocks' = <<>>
    /\ analysedImage' = 0
    /\ elapsedSeconds' = 0
    /\ LET key == ChosenKey(savedKey, envKey)
       IN  IF key = ""
           THEN /\ isProcessing' = FALSE
                /\ error' = KeyMissingMessage
                /\ status' = "Error occurred"
                /\ requests' = requests
           ELSE /\ isProcessing' = TRUE
                /\ error' = Null
                /\ status' = "Analyzing & Translating with Gemini AI..."
                /\ requests' = Append(requests, [image |-> image, apiKey |-> key])
    /\ rawBlocks' = <<>>
    /\ overlays' = Render(image, translatedBlocks', clientWidth, clientHeight)
    /\ UNCHANGED <<image, imageSize, displayScale, reading, loadPending, natural,
                   viewWidth, clientWidth, clientHeight, settingsVars, serverVars,
                   solverVars, pc>>

\* App.tsx:85-97, 102-104: request i resolves with a non-empty list
ResponseBlocks(i, raw) ==
    /\ pc = "app"
    /\ i \in 1..Len(requests)
    /\ requests' = RemoveAt(requests, i)
    /\ rawBlocks' = raw
    /\ translatedBlocks' = FormatBlocks(raw)
    /\ analysedImage' = requests[i].image
    /\ status' = "Translation complete!"
    /\ isProcessing' = FALSE
    /\ overlays' = Render(image, translatedBlocks', clientWidth, clientHeight)
    /\ UNCHANGED <<image, imageSize, error, displayScale, reading, loadPending,
                   natural, viewWidth, clientWidth, clientHeight, elapsedSeconds,
                   settingsVars, serverVars, solverVars, pc>>

\* App.tsx:85-94, 102-104: request i resolves with an empty list
ResponseEmpty(i) ==
    /\ pc = "app"
    /\ i \in 1..Len(requests)
    /\ requests' = RemoveAt(requests, i)
    /\ rawBlocks' = <<>>
    /\ status' = "No text detected in image."
    /\ isProcessing' = FALSE
    /\ overlays' = Render(image, translatedBlocks, clientWidth, clientHeight)
    /\ UNCHANGED <<image, translatedBlocks, analysedImage, imageSize, error,
                   displayScale, reading, loadPending, natural, viewWidth,
                   clientWidth, clientHeight, elapsedSeconds, settingsVars,
                   serverVars, solverVars, pc>>

\* mutant: isProcessing left set when the request rejects
ResponseErrorStaysBusy(i, message) ==
    /\ pc = "app"
    /\ i \in 1..Len(requests)
    /\ requests' = RemoveAt(requests, i)
    /\ error' = IF message = "" THEN "An unexpected error occurred" ELSE message
    /\ status' = "Error occurred"
    /\ overlays' = Render(image, translatedBlocks, clientWidth, clientHeight)
    /\ UNCHANGED <<image, isProcessing, translatedBlocks, analysedImage, imageSize,
                   displayScale, reading, loadPending, natural, viewWidth,
                   clientWidth, clientHeight, elapsedSeconds, settingsVars,
                   routeVars, solverVars, pc>>

\* App.tsx:98-104: request i rejects
ResponseError(i, message) ==
    /\ pc = "app"
    /\ i \in 1..Len(requests)
    /\ requests' = RemoveAt(requests, i)
    /\ error' = IF message = "" THEN "An unexpected error occurred" ELSE message
    /\ status' = "Error occurred"
    /\ isProcessing' = FALSE
    /\ overlays' = Render(image, translatedBlocks, clientWidth, clientHeight)
    /\ UNCHANGED <<image, translatedBlocks, analysedImage, imageSize, displayScale,
                   reading, loadPending, natural, viewWidth, clientWidth,
                   clientHeight, elapsedSeconds, settingsVars, routeVars,
                   solverVars, pc>>

\* mutant: the elapsed-seconds timer gives up on the analysis at its last tick
TickWithTimeout ==
    /\ pc = "app"
    /\ isProcessing
    /\ elapsedSeconds < MaxSeconds
    /\ elapsedSeconds' = elapsedSeconds + 1
    /\ isProcessing' = (elapsedSeconds' < MaxSeconds)
    /\ overlays' = Render(image, translatedBlocks, clientWidth, clientHeight)
    /\ UNCHANGED <<image, status, translatedBlocks, analysedImage, imageSize,
                   error, displayScale, reading, loadPending, natural, viewWidth,
                   clientWidth, clientHeight, requests, settingsVars, routeVars,
                   solverVars, pc>>

\* App.tsx:40-49: the interval started while isProcessing fires; the page renders
Tick ==
    /\ pc = "app"
    /\ isProcessing
    /\ elapsedSeconds < MaxSeconds
    /\ elapsedSeconds' = elapsedSeconds + 1
    /\ overlays' = Render(image, translatedBlocks, clientWidth, clientHeight)
    /\ UNCHANGED <<image, isProcessing, status, translatedBlocks, analysedImage,
                   imageSize, error, displayScale, reading, loadPending, natural,
                   viewWidth, clientWidth, clientHeight, requests, settingsVars,
                   routeVars, solverVars, pc>>

\* what every settings handler leaves alone
SettingsFrame ==
    UNCHANGED <<image, isProcessing, translatedBlocks, analysedImage, imageSize,
                error, displayScale, reading, loadPending, natural, viewWidth,
                clientWidth, clientHeight, requests, elapsedSeconds, envKey,
                routeVars, solverVars, pc>>

\* App.tsx:128: the settings button
OpenSettings ==
    /\ pc = "app"
    /\ ~isSettingsOpen
    /\ isSettingsOpen' = TRUE
    /\ overlays' = Render(image, translatedBlocks, clientWidth, clientHeight)
    /\ UNCHANGED <<status, apiKey, savedKey, statusTimers>>
    /\ SettingsFrame

\* App.tsx:393, 409: the backdrop or the close button
CloseSettings ==
    /\ pc = "app"
    /\ isSettingsOpen
    /\ isSettingsOpen' = FALSE
    /\ overlays' = Render(image, translatedBlocks, clientWidth, clientHeight)
    /\ UNCHANGED <<status, apiKey, savedKey, statusTimers>>
    /\ SettingsFrame

\* App.tsx:424: the key input changes
TypeApiKey(key) ==
    /\ pc = "app"
    /\ isSettingsOpen
    /\ key # apiKey
    /\ apiKey' = key
    /\ overlays' = Render(image, translatedBlocks, clientWidth, clientHeight)
    /\ UNCHANGED <<status, isSettingsOpen, savedKey, statusTimers>>
    /\ SettingsFrame

\* App.tsx:25-30
SaveApiKey ==
    /\ pc = "app"
    /\ isSettingsOpen
    /\ statusTimers < MaxTimers
    /\ savedKey' = apiKey
    /\ isSettingsOpen' = FALSE
    /\ status' = "API Key saved successfully"
    /\ statusTimers' = statusTimers + 1
    /\ overlays' = Render(image, translatedBlocks, clientWidth, clientHeight)
    /\ UNCHANGED apiKey
    /\ SettingsFrame

\* App.tsx:32-38
ClearApiKey ==
    /\ pc = "app"
    /\ isSettingsOpen
    /\ statusTimers < MaxTimers
    /\ savedKey' = Null
    /\ apiKey' = ""
    /\ isSettingsOpen' = FALSE
    /\ status' = "API Key cleared"
    /\ statusTimers' = statusTimers + 1
    /\ overlays' = Render(image, translatedBlocks, clientWidth, clientHeight)
    /\ SettingsFrame

\* App.tsx:29, 37: a status timeout fires; the page renders if the status changed
StatusTimeout ==
    /\ pc = "app"
    /\ statusTimers > 0
    /\ statusTimers' = statusTimers - 1
    /\ status' = ""
    /\ overlays' = IF status = "" THEN overlays
                   ELSE Render(image, translatedBlocks, clientWidth, clientHeight)
    /\ UNCHANGED <<isSettingsOpen, apiKey, savedKey>>
    /\ SettingsFrame

\* App.tsx:111-117: the window is resized and the resize listener runs updateScale;
\* the page renders again only if setDisplayScale changed the state
WindowResize(k) ==
    /\ pc = "app"
    /\ ViewWidth(k) # viewWidth
    /\ viewWidth' = ViewWidth(k)
    /\ clientWidth' = IF image = 0 THEN 0 ELSE viewWidth'
    /\ clientHeight' = IF image = 0 THEN 0 ELSE LayoutHeight(viewWidth', natural)
    /\ displayScale' = UpdatedScale(image # 0, clientWidth', imageSize, displayScale)
    /\ overlays' = IF SameScale(displayScale', displayScale)
                   THEN overlays
                   ELSE Render(image, translatedBlocks, clientWidth', clientHeight')
    /\ UNCHANGED <<image, isProcessing, status, translatedBlocks, imageSize, error,
                   reading, loadPending, natural, requests, elapsedSeconds,
                   analysedImage, settingsVars, routeVars, solverVars, pc>>

Next ==
    \/ \E img \in Images : HandleFileChange(img)
    \/ \E img \in Images : ReaderLoad(img)
    \/ HandleImageLoad
    \/ ProcessImage
    \/ \E i \in 1..MaxRequests, raw \in RawResponses : ResponseBlocks(i, raw)
    \/ \E i \in 1..MaxRequests : ResponseEmpty(i)
    \/ \E i \in 1..MaxRequests, message \in ErrorMessages : ResponseError(i, message)
    \/ Tick
    \/ OpenSettings
    \/ CloseSettings
    \/ \E key \in TypedKeys : TypeApiKey(key)
    \/ SaveApiKey
    \/ ClearApiKey
    \/ StatusTimeout
    \/ \E k \in 1..NumViewports : WindowResize(k)

Spec == Init /\ [][Next]_vars

----------------------------------------------------------------------------
(* The server route POST /api/translate handling a request (api/index.ts)  *)

\* req.body.image: missing, a data URL, or a truthy value that is not a string
StringImage == "data:image/png;base64,QUJD"
OtherImage == "not a string"
RequestImages == {"", StringImage, OtherImage}

\* error.message of what the try block can throw after the provider was called:
\* a rejected generateContent ("" stands for a missing message), JSON.parse of
\* a malformed text, rawBlocks.map on a value it cannot format
RouteFailures == ErrorMessages \cup {"Unexpected token", "b.box_2d is not iterable"}

Response(code, message, blocks) == [status |-> code, error |-> message, blocks |-> blocks]

\* what the route handler leaves alone
RouteFrame ==
    UNCHANGED <<image, isProcessing, status, translatedBlocks, imageSize, error,
                displayScale, reading, loadPending, natural, viewWidth,
                clientWidth, clientHeight, overlays, elapsedSeconds,
                analysedImage, settingsVars, reqImage, solverVars>>

InitRoute ==
    /\ AppIdle
    /\ apiKey = ""
    /\ savedKey = Null
    /\ envKey \in EnvKeys
    /\ viewWidth = ViewWidth(1)
    /\ SolverIdle
    /\ rawBlocks = <<>>
    /\ serverBlocks = <<>>
    /\ reqImage \in RequestImages
    /\ sent = <<>>
    /\ pc = "received"

\* mutant: the image checked before the key
RouteReceiveImageFirst ==
    /\ pc = "received"
    /\ IF reqImage = ""
       THEN /\ sent' = Append(sent, Response(400, "No image data provided", <<>>))
            /\ pc' = "responded"
            /\ UNCHANGED requests
       ELSE IF envKey = ""
       THEN /\ sent' = Append(sent, Response(500,
                            "GEMINI_API_KEY is not configured on the server", <<>>))
            /\ pc' = "responded"
            /\ UNCHANGED requests
       ELSE IF reqImage = OtherImage
       THEN /\ sent' = Append(sent, Response(500, "image.includes is not a function", <<>>))
            /\ pc' = "responded"
            /\ UNCHANGED requests
       ELSE /\ requests' = Append(requests, [image |-> reqImage, apiKey |-> envKey])
            /\ pc' = "awaiting"
            /\ UNCHANGED sent
    /\ UNCHANGED <<rawBlocks, serverBlocks>>
    /\ RouteFrame

\* api/index.ts:15-40: the handler up to the await. Without a key it answers
\* 500, else without an image 400; image.includes throws inside the try block
\* for an image that is not a string and the catch block answers 500
\* (api/index.ts:29, 98-100); else the provider request is made.
RouteReceive ==
    /\ pc = "received"
    /\ IF envKey = ""
       THEN /\ sent' = Append(sent, Response(500,
                            "GEMINI_API_KEY is not configured on the server", <<>>))
            /\ pc' = "responded"
            /\ UNCHANGED requests
       ELSE IF reqImage = ""
       THEN /\ sent' = Append(sent, Response(400, "No image data provided", <<>>))
            /\ pc' = "responded"
            /\ UNCHANGED requests
       ELSE IF reqImage = OtherImage
       THEN /\ sent' = Append(sent, Response(500, "image.includes is not a function", <<>>))
            /\ pc' = "responded"
            /\ UNCHANGED requests
       ELSE /\ requests' = Append(requests, [image |-> reqImage, apiKey |-> envKey])
            /\ pc' = "awaiting"
            /\ UNCHANGED sent
    /\ UNCHANGED <<rawBlocks, serverBlocks>>
    /\ RouteFrame

\* api/index.ts:40, 79-97: the provider answers with a text that parses to a
\* list the route can format; res.json answers with status 200
RouteResolve(raw) ==
    /\ pc = "awaiting"
    /\ requests' = <<>>
    /\ rawBlocks' = raw
    /\ serverBlocks' = ResJson(ServerFormatBlocks(raw))
    /\ sent' = Append(sent, Response(200, "", serverBlocks'))
    /\ pc' = "responded"
    /\ RouteFrame

\* api/index.ts:98-101: the provider call rejects, or parsing or formatting throws
RouteFail(message) ==
    /\ pc = "awaiting"
    /\ requests' = <<>>
    /\ sent' = Append(sent, Response(500,
                    IF message = "" THEN "Failed to process image" ELSE message, <<>>))
    /\ pc' = "responded"
    /\ UNCHANGED <<rawBlocks, serverBlocks>>
    /\ RouteFrame

NextRoute ==
    \/ RouteReceive
    \/ \E raw \in RawFormatLists(MaxRawLen) : RouteResolve(raw)
    \/ \E message \in RouteFailures : RouteFail(message)

RouteSpec == InitRoute /\ [][NextRoute]_vars

\* exactness of the fixed-point reading: every midpoint is a whole number of units
HalvingExact == (search.low + search.high) % 2 = 0

----------------------------------------------------------------------------
(* Claims about the fit solver (checked under SolverSpec)                  *)

GridPerPx == 4               \* candidate sizes every 1/GridPerPx pixel
SizeGrid == {Px(MinSizePx) + k * (PxUnit \div GridPerPx) :
                k \in 0..((CeilingPx - MinSizePx) * GridPerPx)}

Done == pc = "done"
Fits(size) == CheckFits(size, TargetDim(rectW), TargetDim(rectH), charCount, vertical)

\* maxFontSize as the specification words it
SpecMaxFont ==
    Min2(Px(CeilingPx),
         Max2((IF vertical THEN rectH ELSE rectW) - Px(PaddingPx), Px(1)))

\* C1: for every rectangle, charCount and orientation the solved font size
\* satisfies 12 <= fontSizePx <= 40.
C1_FontWithinAbsoluteBounds ==
    Done => /\ Px(MinSizePx) <= result.fontSizePx
            /\ result.fontSizePx <= Px(CeilingPx)

C1_Witness == Done /\ result.fontSizePx > Px(CeilingPx - 1)

\* C2 as stated: fontSizePx never exceeds maxFontSize = min(40, target
\* dimension), also for rectangles whose target dimension is below 12px.
C2_FontAtMostMaxFontSize ==
    Done => result.fontSizePx <= SpecMaxFont

\* C2 amended: fontSizePx never exceeds max(12, maxFontSize); when the
\* target dimension is below 12px the size is the 12px minimum.
C2_FontAtMostMaxOrMinimum ==
    Done => /\ result.fontSizePx <= Max2(Px(MinSizePx), SpecMaxFont)
            /\ (SpecMaxFont < Px(MinSizePx) => result.fontSizePx = Px(MinSizePx))

C2_Witness ==
    /\ Done
    /\ iters > 0
    /\ SpecMaxFont < Px(CeilingPx)
    /\ result.fontSizePx > Px(MinSizePx)
    /\ SpecMaxFont - result.fontSizePx < Precision

\* C3 as stated: overflow is true iff no size in the closed range
\* [12, maxFontSize] fits; in particular overflow is true when the range is empty.
C3_OverflowIffNoSizeInRangeFits ==
    Done => (result.overflow <=>
                \A s \in SizeGrid : s <= SpecMaxFont => ~Fits(s))

\* C3 amended: overflow is true iff no size in [12, max(12, maxFontSize)]
\* fits, i.e. iff the text does not fit at 12px; an empty range
\* [12, maxFontSize] alone does not make overflow true.
C3_OverflowIffMinimumDoesNotFit ==
    Done => /\ result.overflow <=>
                  \A s \in SizeGrid : s <= Max2(Px(MinSizePx), SpecMaxFont) => ~Fits(s)
            /\ result.overflow <=> ~Fits(Px(MinSizePx))

C3_Witness ==
    /\ Done
    /\ iters > 0
    /\ result.overflow
    /\ SpecMaxFont >= Px(MinSizePx)

\* C4: the result is consistent with the fit predicate: overflow is false
\* and the returned size fits, or overflow is true, the size is 12 and 12
\* does not fit.
C4_ResultConsistentWithFit ==
    Done => \/ ~result.overflow /\ Fits(result.fontSizePx)
            \/ /\ result.overflow
               /\ result.fontSizePx = Px(MinSizePx)
               /\ ~Fits(Px(MinSizePx))

C4_Witness ==
    /\ Done
    /\ ~result.overflow
    /\ result.fontSizePx > Px(MinSizePx)
    /\ ~Fits(SpecMaxFont)

\* C5 as stated: when some size in [12, maxFontSize] fits, no size s with
\* fontSizePx + 0.5 <= s <= maxFontSize fits.
C5_LargestFitWithinHalfPixel ==
    (Done /\ \E s \in SizeGrid : s <= SpecMaxFont /\ Fits(s))
        => \A s \in SizeGrid :
              (result.fontSizePx + Precision <= s /\ s <= SpecMaxFont) => ~Fits(s)

\* C6: for a fixed rectangle and orientation, a text with fewer characters
\* never gets a smaller font size than a text with more characters.
C6_MonotoneInCharCount ==
    Done => \A c \in 1..charCount :
               Solve(rectW, rectH, c, vertical).fontSizePx >= result.fontSizePx

C6_Witness ==
    /\ Done
    /\ \E c \in 1..charCount :
          Solve(rectW, rectH, c, vertical).fontSizePx > result.fontSizePx
----------------------------------------------------------------------------
(* Claims about the compositor and the mapper (checked under ComposeSpec)  *)

Composed == pc = "composed"
VerticesOf(i) == translatedBlocks[i].boundingBox.vertices
ValidIndices == {i \in 1..Len(translatedBlocks) : Len(VerticesOf(i)) >= 4}
NthValid(k) == CHOOSE i \in ValidIndices : Cardinality({j \in ValidIndices : j <= i}) = k
Shown(node) == <<node.left, node.top, node.width, node.height,
                 node.fontSizePx, node.shouldScroll, node.writingMode>>

\* C7: compose emits exactly one descriptor per detection with at least 4
\* vertices and none for one with fewer, in input order, and each descriptor
\* is the one its detection gets when composed alone with the same container.
C7_OneDescriptorPerValidDetection ==
    Composed =>
        /\ Len(overlays) = Cardinality(ValidIndices)
        /\ \A k \in 1..Len(overlays) :
              /\ overlays[k].key = NthValid(k) - 1
              /\ overlays[k].title = translatedBlocks[NthValid(k)].text
              /\ overlays[k].text = translatedBlocks[NthValid(k)].translatedText
              /\ Shown(overlays[k]) =
                    Shown(Compose(<<translatedBlocks[NthValid(k)]>>,
                                  clientWidth, clientHeight)[1])

C7_Witness ==
    /\ Composed
    /\ Len(translatedBlocks) = 3
    /\ Len(VerticesOf(1)) >= 4
    /\ Len(VerticesOf(2)) = 3
    /\ Len(VerticesOf(3)) >= 4
    /\ translatedBlocks[1] # translatedBlocks[3]
    /\ Len(overlays) = 2
    /\ clientWidth > 0
    /\ clientHeight > 0

LeastOf(values) == CHOOSE m \in values : \A n \in values : m <= n
GreatestOf(values) == CHOOSE m \in values : \A n \in values : m >= n
ExampleQuad == <<[x |-> 100, y |-> 100], [x |-> 400, y |-> 100],
                 [x |-> 400, y |-> 300], [x |-> 100, y |-> 300]>>
Reordered(vs, perm) == [i \in 1..4 |-> vs[perm[i]]]

\* C8: four points in any order map to x = min(px)*W/1000, y = min(py)*H/1000,
\* width = (max(px)-min(px))*W/1000, height = (max(py)-min(py))*H/1000, the
\* same for every permutation of the points; the example quad in a 1000x1000
\* container gives x=100, y=100, width=300, height=200.
C8_EnclosingBoxOfAnyFourPoints ==
    (Composed /\ Len(translatedBlocks) = 1 /\ Len(VerticesOf(1)) = 4) =>
        LET vs == VerticesOf(1)
            pxs == {vs[i].x : i \in 1..4}
            pys == {vs[i].y : i \in 1..4}
            scaleW == clientWidth * (PxUnit \div NormRange)
            scaleH == clientHeight * (PxUnit \div NormRange)
        IN  /\ Len(overlays) = 1
            /\ overlays[1].left = LeastOf(pxs) * scaleW
            /\ overlays[1].top = LeastOf(pys) * scaleH
            /\ overlays[1].width = (GreatestOf(pxs) - LeastOf(pxs)) * scaleW
            /\ overlays[1].height = (GreatestOf(pys) - LeastOf(pys)) * scaleH
            /\ \A perm \in Permutations(1..4) :
                  MapToDisplay(Reordered(vs, perm), clientWidth, clientHeight)
                      = MapToDisplay(vs, clientWidth, clientHeight)
            /\ (\E perm \in Permutations(1..4) : vs = Reordered(ExampleQuad, perm))
                  /\ clientWidth = 1000 /\ clientHeight = 1000
               => /\ overlays[1].left = Px(100)
                  /\ overlays[1].top = Px(100)
                  /\ overlays[1].width = Px(300)
                  /\ overlays[1].height = Px(200)

C8_Witness ==
    /\ Composed
    /\ Len(translatedBlocks) = 1
    /\ VerticesOf(1) = <<ExampleQuad[3], ExampleQuad[1], ExampleQuad[4], ExampleQuad[2]>>
    /\ clientWidth = 1000
    /\ clientHeight = 1000
    /\ overlays[1].width = Px(300)
    /\ overlays[1].height = Px(200)
----------------------------------------------------------------------------
(* Claims about the page (checked under Spec)                              *)

\* C9: after an analysis request fails or returns an empty list the overlay
\* list is empty (nothing left over from an earlier analysis), and on
\* failure the error is recorded.
C9_NoOverlaysAfterFailedOrEmptyAnalysis ==
    /\ (status = "Error occurred" \/ status = "No text detected in image.")
          => translatedBlocks = <<>> /\ overlays = <<>>
    /\ status = "Error occurred" => error # Null

C9_Witness ==
    /\ status = "Error occurred"
    /\ error = "provider error"
    /\ ~isProcessing
    /\ requests = <<>>
    /\ imageSize.width > 0
    /\ overlays = <<>>

\* C10: once a window resize or a new detection list has been handled, the
\* displayed overlays are the ones computed from the current container
\* width and height and the current detection list.
C10_OverlaysFollowViewportAndDetections ==
    pc = "app" => overlays = Render(image, translatedBlocks, clientWidth, clientHeight)

----------------------------------------------------------------------------
(* Claims about the search loop's termination (checked under SolverLive)   *)

IntervalLength(s) == s.high - s.low

\* C15: the search loop terminates for every rectangle, charCount and
\* orientation within a fixed number of iterations: the interval starts with a
\* length of at most 28px, every iteration leaves at most half the length
\* minus 0.5px, so at most five iterations run, and every run finishes.
C15_LoopTerminatesWithinFixedIterations ==
    /\ [](/\ iters = 0 => IntervalLength(search) <= Px(CeilingPx - MinSizePx)
          /\ iters <= 5)
    /\ [][iters' = iters + 1 =>
             2 * IntervalLength(search') <= IntervalLength(search) - 2 * Precision]_vars
    /\ <>Done

C15_Witness == Done /\ iters = 5

----------------------------------------------------------------------------
(* Claims about the descriptors' presentation flags (under ComposeSpec)    *)

ScrollAxes(node) ==
    {a \in {"x", "y"} : (IF a = "x" THEN node.overflowX ELSE node.overflowY) = "auto"}

\* C13: in every descriptor the writing mode is vertical-rl and the stacking
\* direction row-reverse exactly when its detection is vertical; the content is
\* start-aligned instead of centered exactly when it overflows; an overflowing
\* descriptor scrolls on exactly one axis (Y if horizontal, X if vertical) and
\* a fitting one on none.
C13_FlagsFollowOrientationAndOverflow ==
    Composed =>
        \A k \in 1..Len(overlays) :
            LET node == overlays[k]
                isVertical == translatedBlocks[NthValid(k)].orientation = "vertical"
            IN  /\ node.writingMode = (IF isVertical THEN "vertical-rl" ELSE "horizontal-tb")
                /\ node.flexDirection = (IF isVertical THEN "row-reverse" ELSE "column")
                /\ node.justifyContent = (IF node.shouldScroll THEN "flex-start" ELSE "center")
                /\ ScrollAxes(node) = (IF ~node.shouldScroll THEN {}
                                       ELSE IF isVertical THEN {"x"} ELSE {"y"})

C13_Witness ==
    /\ Composed
    /\ \E i, j \in 1..Len(overlays) :
          /\ ScrollAxes(overlays[i]) = {"x"}
          /\ ScrollAxes(overlays[j]) = {"y"}

----------------------------------------------------------------------------
(* Claims about the detection pipeline boundary (under FormatSpec)         *)

Formatted == pc = "formatted"
FullBox(i) == Len(rawBlocks[i].box_2d) = 4

\* C12: every raw block with box_2d = [ymin, xmin, ymax, xmax] becomes a
\* detection with exactly the four vertices (xmin,ymin), (xmax,ymin),
\* (xmax,ymax), (xmin,ymax) in that order, the i-th detection comes from the
\* i-th raw block, and the server route's list equals the client service's.
C12_BoxToQuadClientAndServerAgree ==
    Formatted =>
        /\ Len(translatedBlocks) = Len(rawBlocks)
        /\ Len(serverBlocks) = Len(rawBlocks)
        /\ \A i \in 1..Len(rawBlocks) :
              FullBox(i) =>
                LET box == rawBlocks[i].box_2d
                IN  /\ translatedBlocks[i].boundingBox.vertices =
                          <<[x |-> box[2], y |-> box[1]], [x |-> box[4], y |-> box[1]],
                            [x |-> box[4], y |-> box[3]], [x |-> box[2], y |-> box[3]]>>
                    /\ translatedBlocks[i].text = rawBlocks[i].text
                    /\ serverBlocks[i] = translatedBlocks[i]

C12_Witness ==
    /\ Formatted
    /\ Len(rawBlocks) = 2
    /\ FullBox(1) /\ FullBox(2)
    /\ rawBlocks[1].text # rawBlocks[2].text
    /\ rawBlocks[1].box_2d # rawBlocks[2].box_2d
    /\ rawBlocks[1].orientation = "sideways"

----------------------------------------------------------------------------
(* Claims about the analysis request (checked under Spec)                  *)

\* C14: an analysis request starts only while an image is selected and no
\* analysis is in progress, an outstanding request keeps isProcessing set (the
\* Translate button disabled), and so at most one request is ever outstanding.
C14_AtMostOneRequestOutstanding ==
    /\ [](/\ Len(requests) <= 1
          /\ requests # <<>> => isProcessing)
    /\ [][Len(requests') > Len(requests) => image # 0 /\ ~isProcessing]_vars

C14_Witness == Len(requests) = 1 /\ isProcessing /\ image # 0

\* C16: while the request in flight gets no response, no step of the program,
\* neither the elapsed-seconds timer nor a status timeout nor any handler,
\* clears isProcessing or enables the Translate button again.
C16_PendingUntilResponse ==
    [][isProcessing /\ requests # <<>> /\ requests' = requests =>
          isProcessing' /\ ~(image' # 0 /\ ~isProcessing')]_vars

C16_Witness ==
    /\ isProcessing
    /\ requests # <<>>
    /\ elapsedSeconds = MaxSeconds
    /\ status = ""

----------------------------------------------------------------------------
(* Claims about the descending-step solver (checked under DescSpec)        *)

Emitted == pc = "emitted"

\* C17: the descending-step solver emits a font size with
\* 12 <= fontSize <= 40 for every rectangle, charCount and orientation.
C17_DescendingFontWithinBounds ==
    Emitted => /\ Px(MinSizePx) <= result.fontSizePx
               /\ result.fontSizePx <= Px(CeilingPx)

----------------------------------------------------------------------------
(* Claims about responses and the selected image (checked under Spec)      *)

\* C18: the detections shown over an image come from an analysis of that same
\* image: a response to a request made for a previously selected image is
\* never displayed over the image selected now.
C18_OverlaysComeFromSelectedImage ==
    translatedBlocks # <<>> => analysedImage = image

\* C19: whenever no request is left unsettled isProcessing is false, so every
\* request that settled (with detections, with an empty list or with an error)
\* left the Translate button enabled for the selected image; and after a
\* non-empty result the detection list is the returned one, block for block,
\* and error is null.
C19_SettledRequestEndsProcessing ==
    /\ requests = <<>> => ~isProcessing
    /\ status = "Translation complete!" =>
          /\ error = Null
          /\ rawBlocks # <<>>
          /\ Len(translatedBlocks) = Len(rawBlocks)
          /\ \A i \in 1..Len(rawBlocks) :
                /\ translatedBlocks[i].text = rawBlocks[i].text
                /\ translatedBlocks[i].translatedText = rawBlocks[i].translatedText
                /\ translatedBlocks[i].orientation =
                      (IF rawBlocks[i].orientation = "vertical"
                       THEN "vertical" ELSE "horizontal")
                /\ translatedBlocks[i].boundingBox.vertices =
                      LET box == rawBlocks[i].box_2d
                      IN  <<[x |-> box[2], y |-> box[1]], [x |-> box[4], y |-> box[1]],
                            [x |-> box[4], y |-> box[3]], [x |-> box[2], y |-> box[3]]>>

C19_Witness ==
    /\ status = "Translation complete!"
    /\ ~isProcessing
    /\ translatedBlocks # <<>>
    /\ overlays # <<>>

----------------------------------------------------------------------------
(* Claims about the API key (checked under Spec)                           *)

HasSavedKey == savedKey \notin {Null, ""}
HasEnvKey == envKey # ""

\* C20: a click on Translate with neither a saved nor an environment key sends
\* no request to the provider and leaves the page in the error state (the
\* missing-key message, status "Error occurred", not processing) with no
\* overlays, and the page stays so while that error is shown; a request sent
\* while both keys exist carries the saved key, and no request is ever sent
\* without a key.
C20_MissingKeyFailsBeforeRequest ==
    /\ [][ProcessImage /\ ~HasSavedKey /\ ~HasEnvKey =>
             /\ requests' = requests
             /\ error' = KeyMissingMessage
             /\ status' = "Error occurred"
             /\ ~isProcessing'
             /\ translatedBlocks' = <<>>
             /\ overlays' = <<>>]_vars
    /\ [][Len(requests') > Len(requests) =>
             /\ HasSavedKey \/ HasEnvKey
             /\ requests'[Len(requests')].apiKey # ""
             /\ HasSavedKey /\ HasEnvKey =>
                   requests'[Len(requests')].apiKey = savedKey]_vars
    /\ [](error = KeyMissingMessage =>
             /\ requests = <<>>
             /\ ~isProcessing
             /\ overlays = <<>>)

C20_Witness ==
    /\ error = KeyMissingMessage
    /\ status = "Error occurred"
    /\ image # 0
    /\ ~HasSavedKey /\ ~HasEnvKey

----------------------------------------------------------------------------
(* Claims about the mapped rectangle (checked under ComposeSpec)           *)

InNormRange(vertices) ==
    \A i \in 1..Len(vertices) :
        /\ OrZero(vertices[i].x) \in 0..NormRange
        /\ OrZero(vertices[i].y) \in 0..NormRange

\* C21: for vertices in [0,1000] x [0,1000] and a container with non-negative
\* sides every mapped rectangle lies inside the container: x >= 0, y >= 0,
\* width >= 0, height >= 0, x + width <= containerWidth and
\* y + height <= containerHeight.
C21_MappedRectangleInsideContainer ==
    (Composed /\ clientWidth >= 0 /\ clientHeight >= 0) =>
        \A k \in 1..Len(overlays) :
            InNormRange(VerticesOf(NthValid(k))) =>
                /\ overlays[k].left >= 0
                /\ overlays[k].top >= 0
                /\ overlays[k].width >= 0
                /\ overlays[k].height >= 0
                /\ overlays[k].left + overlays[k].width <= Px(clientWidth)
                /\ overlays[k].top + overlays[k].height <= Px(clientHeight)

C21_Witness ==
    /\ Composed
    /\ clientWidth > 0
    /\ clientHeight > 0
    /\ \E k \in 1..Len(overlays) :
          /\ InNormRange(VerticesOf(NthValid(k)))
          /\ overlays[k].left > 0
          /\ overlays[k].width > 0
          /\ overlays[k].left + overlays[k].width = Px(clientWidth)

----------------------------------------------------------------------------
(* Claims about the solver's orientation symmetry (under SolverSpec)       *)

\* C22: solving a rectangle of width w and height h in vertical orientation
\* gives the same fontSizePx and overflow as solving the transposed rectangle
\* (width h, height w) in horizontal orientation, for every charCount.
C22_OrientationSymmetry ==
    Done => result = Solve(rectH, rectW, charCount, ~vertical)

C22_Witness ==
    /\ Done
    /\ vertical
    /\ rectW # rectH
    /\ result.fontSizePx > Px(MinSizePx)
    /\ result # Solve(rectW, rectH, charCount, FALSE)

----------------------------------------------------------------------------
(* Claims about the server route (checked under RouteSpec)                 *)

Responded == pc = "responded"

\* C23: the route sends exactly one response per handled request and none
\* before: 500 when the server key is not configured, whatever the image; 400
\* when the key is configured and no image is supplied; in both cases without
\* a provider request. After a provider request it answers the formatted
\* detection list when the call succeeded and 500 with the error's message
\* (or the fallback text) when the call or the parsing failed.
C23_ExactlyOneResponsePerRequest ==
    /\ [](/\ Len(sent) = (IF Responded THEN 1 ELSE 0)
          /\ Responded /\ envKey = "" =>
                /\ sent[1].status = 500
                /\ sent[1].error = "GEMINI_API_KEY is not configured on the server"
          /\ Responded /\ envKey # "" /\ reqImage = "" =>
                /\ sent[1].status = 400
                /\ sent[1].error = "No image data provided"
          /\ Responded => sent[1].status \in {200, 400, 500}
          /\ Responded /\ sent[1].status = 200 =>
                /\ sent[1].error = ""
                /\ Len(sent[1].blocks) = Len(rawBlocks)
                /\ \A i \in 1..Len(rawBlocks) :
                      /\ sent[1].blocks[i].text = rawBlocks[i].text
                      /\ FullBox(i) =>
                            LET box == rawBlocks[i].box_2d
                            IN  sent[1].blocks[i].boundingBox.vertices =
                                  <<[x |-> box[2], y |-> box[1]], [x |-> box[4], y |-> box[1]],
                                    [x |-> box[4], y |-> box[3]], [x |-> box[2], y |-> box[3]]>>
          /\ Responded /\ sent[1].status # 200 =>
                /\ sent[1].error # ""
                /\ sent[1].blocks = <<>>)
    /\ [][pc = "received" /\ (envKey = "" \/ reqImage = "") =>
             requests' = <<>> /\ pc' = "responded"]_vars
    /\ [][pc = "awaiting" /\ pc' = "responded" =>
             /\ requests # <<>>
             /\ sent'[1].status \in {200, 500}]_vars

C23_Witness ==
    /\ Responded
    /\ sent[1].status = 200
    /\ Len(sent[1].blocks) = 2
    /\ envKey # ""
    /\ reqImage = StringImage

====
